---- MODULE Spec2Model ----
(***************************************************************************)
(* gh-flush: the notification pipeline of internal/client/client.go.       *)
(*                                                                         *)
(* FetchNotifications reads the inbox page by page (halting on a streak of *)
(* read notifications), ProcessNotifications starts a feeder, NumWorkers   *)
(* tagNotifications goroutines, NumWorkers deleteNotifications goroutines  *)
(* and two WaitGroup barriers, and the sink calls GetNotificationResult    *)
(* until the results channel is closed.                                    *)
(*                                                                         *)
(* Spec        one run of main(): fetch (one page), then the pipeline      *)
(* SpecFetch   FetchNotifications alone, over every inbox and paging       *)
(* SpecTwoRuns a run, then a second run on the same inbox with one option  *)
(*             changed, for the properties that compare two runs           *)
(***************************************************************************)
EXTENDS Integers, Sequences, FiniteSets, Bags

(* ---------------------------- bounds ----------------------------------- *)

\* longest inbox the service holds in a pipeline run
MaxLen == 3
\* largest worker count (opts.NumWorkers) of a pipeline run
MaxWorkers == 2
\* longest inbox the service holds in a fetch-only run
MaxInbox == 7
\* largest halt-after value (opts.HaltAfter) of a fetch-only run
MaxHalt == 3
\* longest inbox the service holds in a run that follows the flow of items
MaxFlow == 5

(* ---------------------------- data ------------------------------------- *)

\* Notification.Subject.Type values: the one the code tests for, and another
SubjectTypes == {"PullRequest", "Issue"}

\* PullRequest as decoded from the detail GET (types.go PullRequest)
PullRequests == [State : {"open", "closed"}, UserType : {"Bot", "User"}]

\* result.PR == nil
NoPR == [State |-> "", UserType |-> ""]

\* Notification (types.go): Id stands for Id, Url and Subject.Url alike
Notification(i, unread, type) == [Id |-> i, Unread |-> unread, Type |-> type]

\* NotificationResult{Notification: notification}: Go zero values elsewhere
NotificationResult(n) ==
    [Notification |-> n, PR |-> NoPR, Deleted |-> FALSE, Read |-> FALSE,
     BotPR |-> FALSE, ClosedPR |-> FALSE]

\* Options as parsed by parseOptions
Options(b, c, r, d, w, h) ==
    [SkipPRsFromBots |-> b, SkipClosedPRs |-> c, SkipReadNotifications |-> r,
     DryRun |-> d, NumWorkers |-> w, HaltAfter |-> h]

from_a_bot(pullRequest) == pullRequest.UserType = "Bot"

closedPR(pullRequest) == pullRequest.State = "closed"

VARIABLES
    opts,           \* client.opts
    inbox,          \* the service's notifications, in service order
    prs,            \* the service's pull-request detail, by subject Url
    mainPc,         \* where main() is: "fetch", "process", "print", "finished"
    requestPath,    \* FetchNotifications' requestPath: the inbox offset it names
    requests,       \* LIST requests issued so far
    readStreak,     \* FetchNotifications' readStreak
    pending,        \* FetchNotifications' local notifications slice
    notifications,  \* client.notifications
    feeder,         \* feeder goroutine: [pc, i], i the next index to push
    input,          \* client.input buffer
    inputClosed,
    tagger,         \* tagNotifications goroutines, by where they are
    wgFetcher,
    statuses,       \* client.statuses buffer
    statusesClosed,
    deleter,        \* deleteNotifications goroutines, by where they are
    wgDeleter,
    resultsClosed,
    received,       \* results GetNotificationResult returned with ok = true
    gets,           \* detail GET calls issued, per subject Url
    deletes,        \* DELETE calls issued, per notification Url
    first,          \* what an earlier run of the program on this inbox did
    ui,             \* the interactive program of ui.Run, when stdout is a terminal
    failed          \* the remote call that failed: "none", "list", "get", "delete"

vars == <<opts, inbox, prs, mainPc, requestPath, requests, readStreak, pending,
          notifications, feeder, input, inputClosed, tagger, wgFetcher,
          statuses, statusesClosed, deleter, wgDeleter, resultsClosed,
          received, gets, deletes, first, ui, failed>>

fetchVars == <<requestPath, requests, readStreak, pending, notifications>>
pipeVars == <<feeder, input, inputClosed, tagger, wgFetcher, statuses,
              statusesClosed, deleter, wgDeleter, resultsClosed, received,
              gets, deletes>>
envVars == <<ui, failed>>

(* ---------------------------- the service ------------------------------ *)

\* The Link header of a page that starts at inbox offset `from` and holds k
\* items: rel="prev" and rel="first" after the first page, rel="next" and
\* rel="last" while items remain. A url is the inbox offset it names.
LinkHeader(from, k) ==
    (IF from > 0
        THEN <<[url |-> 0, rel |-> "first"], [url |-> 0, rel |-> "prev"]>>
        ELSE <<>>)
    \o
    (IF from + k < Len(inbox)
        THEN <<[url |-> from + k, rel |-> "next"],
               [url |-> Len(inbox), rel |-> "last"]>>
        ELSE <<>>)

\* ghApiClient.Request(GET, requestPath): the page of k items at that offset
Response(from, k) ==
    [Body |-> SubSeq(inbox, from + 1, from + k), Link |-> LinkHeader(from, k)]

\* The page sizes the service may answer with: every item left or any
\* non-empty part of them (an empty inbox is one empty page).
PageSizes(from) ==
    IF from >= Len(inbox) THEN {0} ELSE 1..(Len(inbox) - from)

(* ---------------------------- FetchNotifications ----------------------- *)

RECURSIVE findNextPageFrom(_, _)
findNextPageFrom(links, i) ==
    IF i > Len(links) THEN [path |-> 0, ok |-> FALSE]
    ELSE IF links[i].rel = "next" THEN [path |-> links[i].url, ok |-> TRUE]
    ELSE findNextPageFrom(links, i + 1)

\* findNextPage: the first link whose rel is "next"
findNextPage(response) == findNextPageFrom(response.Link, 1)

\* ScanBatch with a streak that an unread notification does not reset
RECURSIVE ScanBatchNoReset(_, _, _, _)
ScanBatchNoReset(batch, i, streak, acc) ==
    IF i > Len(batch) THEN [readStreak |-> streak, notifications |-> acc, halt |-> FALSE]
    ELSE IF batch[i].Unread
        THEN ScanBatchNoReset(batch, i + 1, streak, Append(acc, batch[i]))
    ELSE IF opts.HaltAfter > 0 /\ streak + 1 >= opts.HaltAfter
        THEN [readStreak |-> streak + 1, notifications |-> acc, halt |-> TRUE]
    ELSE ScanBatchNoReset(batch, i + 1, streak + 1, Append(acc, batch[i]))

\* The loop over one notificationBatch, from item i on: the streak, the
\* notifications slice, and whether `break loadNotifications` was taken.
RECURSIVE ScanBatch(_, _, _, _)
ScanBatch(batch, i, streak, acc) ==
    IF i > Len(batch) THEN [readStreak |-> streak, notifications |-> acc, halt |-> FALSE]
    ELSE IF batch[i].Unread
        THEN ScanBatch(batch, i + 1, 0, Append(acc, batch[i]))
    ELSE IF opts.HaltAfter > 0 /\ streak + 1 >= opts.HaltAfter
        THEN [readStreak |-> streak + 1, notifications |-> acc, halt |-> TRUE]
    ELSE ScanBatch(batch, i + 1, streak + 1, Append(acc, batch[i]))

\* One iteration of the loadNotifications loop: request a page, scan it, then
\* either follow the rel="next" link or leave the loop and store the slice.
FetchNotifications(k) ==
    /\ mainPc = "fetch"
    /\ k \in PageSizes(requestPath)
    /\ LET response == Response(requestPath, k)
           scan == ScanBatch(response.Body, 1, readStreak, pending)
           next == findNextPage(response)
       IN  /\ requests' = requests + 1
           /\ readStreak' = scan.readStreak
           /\ pending' = scan.notifications
           /\ IF scan.halt \/ ~next.ok
                 THEN /\ notifications' = scan.notifications
                      /\ mainPc' = "process"
                      /\ requestPath' = requestPath
                 ELSE /\ requestPath' = next.path
                      /\ UNCHANGED <<notifications, mainPc>>
    /\ UNCHANGED <<opts, inbox, prs, first>>
    /\ UNCHANGED pipeVars
    /\ UNCHANGED envVars

(* ---------------------------- the pipeline ----------------------------- *)

\* capInput that never leaves input without a buffer
capInputAtLeastOne == IF opts.NumWorkers = 0 THEN 1 ELSE opts.NumWorkers

\* The capacities NewClient gives the three channels: input and statuses
\* buffer NumWorkers items, results is made without a size and buffers none
capInput == opts.NumWorkers
capStatuses == opts.NumWorkers
capResults == 0

\* main has called ProcessNotifications and the process is alive: the
\* goroutines exist and run. They end with the process, when main returns.
Started == mainPc = "print"

\* A pool of goroutines that run the same loop, by where each one is: recv
\* counts those at the range receive, call holds what those waiting for the
\* answer to their remote call (detail GET, DELETE) carry, send holds what
\* those blocked at the send carry, done counts those that are gone, their
\* deferred Done() run. Goroutines have no identity.
Pool(n) == [recv |-> n, call |-> EmptyBag, send |-> EmptyBag, done |-> 0]

One(x) == SetToBag({x})

\* ProcessNotifications, called by main when stdout is no terminal: both
\* WaitGroups get NumWorkers, then the feeder, the workers and the two
\* barrier goroutines are started.
ProcessNotifications ==
    /\ mainPc = "process"
    /\ ~ui.on
    /\ mainPc' = "print"
    /\ wgFetcher' = wgFetcher + opts.NumWorkers
    /\ wgDeleter' = wgDeleter + opts.NumWorkers
    /\ feeder' = [pc |-> "push", i |-> 1]
    /\ tagger' = Pool(opts.NumWorkers)
    /\ deleter' = Pool(opts.NumWorkers)
    /\ UNCHANGED <<opts, inbox, prs, input, inputClosed, statuses, statusesClosed,
                   resultsClosed, received, gets, deletes, first>>
    /\ UNCHANGED fetchVars
    /\ UNCHANGED envVars

\* FeederPush that never blocks, as on a channel without a bound
FeederPushUnbounded ==
    /\ Started
    /\ feeder.pc = "push"
    /\ feeder.i <= Len(notifications)
    /\ input' = Append(input, notifications[feeder.i])
    /\ feeder' = [feeder EXCEPT !.i = @ + 1]
    /\ UNCHANGED <<opts, inbox, prs, mainPc, inputClosed, tagger, wgFetcher, statuses,
                   statusesClosed, deleter, wgDeleter, resultsClosed, received,
                   gets, deletes, first>>
    /\ UNCHANGED fetchVars
    /\ UNCHANGED envVars

\* feeder: client.input <- n, blocking while the buffer is full
FeederPush ==
    /\ Started
    /\ feeder.pc = "push"
    /\ feeder.i <= Len(notifications)
    /\ Len(input) < capInput
    /\ input' = Append(input, notifications[feeder.i])
    /\ feeder' = [feeder EXCEPT !.i = @ + 1]
    /\ UNCHANGED <<opts, inbox, prs, mainPc, inputClosed, tagger, wgFetcher, statuses,
                   statusesClosed, deleter, wgDeleter, resultsClosed, received,
                   gets, deletes, first>>
    /\ UNCHANGED fetchVars
    /\ UNCHANGED envVars

\* The feeder returning without the deferred close(client.input)
FeederCloseForgotten ==
    /\ Started
    /\ feeder.pc = "push"
    /\ feeder.i > Len(notifications)
    /\ feeder' = [feeder EXCEPT !.pc = "done"]
    /\ UNCHANGED <<opts, inbox, prs, mainPc, input, inputClosed, tagger, wgFetcher,
                   statuses, statusesClosed, deleter, wgDeleter, resultsClosed,
                   received, gets, deletes, first>>
    /\ UNCHANGED fetchVars
    /\ UNCHANGED envVars

\* FeederClose that may run before the range loop is over
FeederCloseAnytime ==
    /\ Started
    /\ feeder.pc = "push"
    /\ inputClosed' = TRUE
    /\ feeder' = [feeder EXCEPT !.pc = "done"]
    /\ UNCHANGED <<opts, inbox, prs, mainPc, input, tagger, wgFetcher, statuses,
                   statusesClosed, deleter, wgDeleter, resultsClosed, received,
                   gets, deletes, first>>
    /\ UNCHANGED fetchVars
    /\ UNCHANGED envVars

\* feeder: the deferred close(client.input) once the range loop is over
FeederClose ==
    /\ Started
    /\ feeder.pc = "push"
    /\ feeder.i > Len(notifications)
    /\ inputClosed' = TRUE
    /\ feeder' = [feeder EXCEPT !.pc = "done"]
    /\ UNCHANGED <<opts, inbox, prs, mainPc, input, tagger, wgFetcher, statuses,
                   statusesClosed, deleter, wgDeleter, resultsClosed, received,
                   gets, deletes, first>>
    /\ UNCHANGED fetchVars
    /\ UNCHANGED envVars

\* Tag with the bot flag left unset under skip-bots, the way the Read flag is
\* left unset under skip-read
TagSkipBots(notification) ==
    LET r0 == NotificationResult(notification)
        r1 == IF ~notification.Unread /\ ~opts.SkipReadNotifications
                 THEN [r0 EXCEPT !.Read = TRUE] ELSE r0
    IN  IF notification.Type = "PullRequest"
           THEN LET pr == prs[notification.Id]
                IN  [r1 EXCEPT !.PR = pr,
                               !.BotPR = from_a_bot(pr) /\ ~opts.SkipPRsFromBots,
                               !.ClosedPR = closedPR(pr)]
           ELSE r1

\* Tag that sets the Read flag whatever the skip-read switch says
TagReadAlways(notification) ==
    LET r0 == NotificationResult(notification)
        r1 == IF ~notification.Unread
                 THEN [r0 EXCEPT !.Read = TRUE] ELSE r0
    IN  IF notification.Type = "PullRequest"
           THEN LET pr == prs[notification.Id]
                IN  [r1 EXCEPT !.PR = pr, !.BotPR = from_a_bot(pr),
                               !.ClosedPR = closedPR(pr)]
           ELSE r1

\* The body of tagNotifications' loop up to the send: the Read flag, and for
\* a pull request the detail GET and the two flags taken from it.
Tag(notification) ==
    LET r0 == NotificationResult(notification)
        r1 == IF ~notification.Unread /\ ~opts.SkipReadNotifications
                 THEN [r0 EXCEPT !.Read = TRUE] ELSE r0
    IN  IF notification.Type = "PullRequest"
           THEN LET pr == prs[notification.Id]
                IN  [r1 EXCEPT !.PR = pr, !.BotPR = from_a_bot(pr),
                               !.ClosedPR = closedPR(pr)]
           ELSE r1

\* TagGets with the detail GET issued whatever the subject type
TagGetsAlways(notification) ==
    [gets EXCEPT ![notification.Id] = @ + 1]

\* The detail GET calls the loop body makes for this notification
TagGets(notification) ==
    IF notification.Type = "PullRequest"
       THEN [gets EXCEPT ![notification.Id] = @ + 1] ELSE gets

\* tagNotifications: receive one notification from client.input; for a pull
\* request the detail GET is issued and the goroutine waits for the answer,
\* anything else is tagged and taken to the send
TagReceive ==
    /\ Started
    /\ tagger.recv > 0
    /\ input # <<>>
    /\ input' = Tail(input)
    /\ tagger' = IF TagGets(Head(input)) # gets
                    THEN [tagger EXCEPT !.recv = @ - 1,
                                        !.call = @ (+) One(Head(input))]
                    ELSE [tagger EXCEPT !.recv = @ - 1,
                                        !.send = @ (+) One(Tag(Head(input)))]
    /\ gets' = TagGets(Head(input))
    /\ UNCHANGED <<opts, inbox, prs, mainPc, feeder, inputClosed, wgFetcher, statuses,
                   statusesClosed, deleter, wgDeleter, resultsClosed, received,
                   deletes, first>>
    /\ UNCHANGED fetchVars
    /\ UNCHANGED envVars

\* tagNotifications: the detail GET answers; the result gets the pull request
\* and the two flags taken from it and is taken to the send
TagGet(notification) ==
    /\ Started
    /\ BagIn(notification, tagger.call)
    /\ tagger' = [tagger EXCEPT !.call = @ (-) One(notification),
                                !.send = @ (+) One(Tag(notification))]
    /\ UNCHANGED <<opts, inbox, prs, mainPc, feeder, input, inputClosed, wgFetcher,
                   statuses, statusesClosed, deleter, wgDeleter, resultsClosed,
                   received, gets, deletes, first>>
    /\ UNCHANGED fetchVars
    /\ UNCHANGED envVars

\* tagNotifications: client.statuses <- result, blocking while the buffer is full
TagSend(result) ==
    /\ Started
    /\ BagIn(result, tagger.send)
    /\ ~statusesClosed
    /\ Len(statuses) < capStatuses
    /\ statuses' = Append(statuses, result)
    /\ tagger' = [tagger EXCEPT !.send = @ (-) One(result), !.recv = @ + 1]
    /\ UNCHANGED <<opts, inbox, prs, mainPc, feeder, input, inputClosed, wgFetcher,
                   statusesClosed, deleter, wgDeleter, resultsClosed, received,
                   gets, deletes, first>>
    /\ UNCHANGED fetchVars
    /\ UNCHANGED envVars

\* TagExit that leaves the loop as soon as client.input is empty, closed or not
TagExitOnEmpty ==
    /\ Started
    /\ tagger.recv > 0
    /\ input = <<>>
    /\ tagger' = [tagger EXCEPT !.recv = @ - 1, !.done = @ + 1]
    /\ wgFetcher' = wgFetcher - 1
    /\ UNCHANGED <<opts, inbox, prs, mainPc, feeder, input, inputClosed, statuses,
                   statusesClosed, deleter, wgDeleter, resultsClosed, received,
                   gets, deletes, first>>
    /\ UNCHANGED fetchVars
    /\ UNCHANGED envVars

\* tagNotifications: client.input is closed and drained, the range loop ends
\* and the deferred wgFetcher.Done() runs
TagExit ==
    /\ Started
    /\ tagger.recv > 0
    /\ input = <<>>
    /\ inputClosed
    /\ tagger' = [tagger EXCEPT !.recv = @ - 1, !.done = @ + 1]
    /\ wgFetcher' = wgFetcher - 1
    /\ UNCHANGED <<opts, inbox, prs, mainPc, feeder, input, inputClosed, statuses,
                   statusesClosed, deleter, wgDeleter, resultsClosed, received,
                   gets, deletes, first>>
    /\ UNCHANGED fetchVars
    /\ UNCHANGED envVars

\* CloseStatuses that waits for one tagNotifications goroutine, not for all
CloseStatusesEarly ==
    /\ Started
    /\ ~statusesClosed
    /\ wgFetcher < opts.NumWorkers
    /\ statusesClosed' = TRUE
    /\ UNCHANGED <<opts, inbox, prs, mainPc, feeder, input, inputClosed, tagger,
                   wgFetcher, statuses, deleter, wgDeleter, resultsClosed, received,
                   gets, deletes, first>>
    /\ UNCHANGED fetchVars
    /\ UNCHANGED envVars

\* The first barrier: wgFetcher.Wait() returns, the deferred close(statuses) runs
CloseStatuses ==
    /\ Started
    /\ ~statusesClosed
    /\ wgFetcher = 0
    /\ statusesClosed' = TRUE
    /\ UNCHANGED <<opts, inbox, prs, mainPc, feeder, input, inputClosed, tagger,
                   wgFetcher, statuses, deleter, wgDeleter, resultsClosed, received,
                   gets, deletes, first>>
    /\ UNCHANGED fetchVars
    /\ UNCHANGED envVars

\* Policy without the bot test
PolicyNoBot(status) ==
    LET s2 == IF status.ClosedPR /\ ~opts.SkipClosedPRs
                 THEN [status EXCEPT !.Deleted = TRUE] ELSE status
    IN  IF s2.Read /\ ~opts.SkipReadNotifications
           THEN [s2 EXCEPT !.Deleted = TRUE] ELSE s2

\* Policy that marks nothing deleted in a dry run
PolicyDryRunAware(status) ==
    LET s1 == IF status.BotPR /\ ~opts.SkipPRsFromBots
                 THEN [status EXCEPT !.Deleted = TRUE] ELSE status
        s2 == IF s1.ClosedPR /\ ~opts.SkipClosedPRs
                 THEN [s1 EXCEPT !.Deleted = TRUE] ELSE s1
        s3 == IF s2.Read /\ ~opts.SkipReadNotifications
                 THEN [s2 EXCEPT !.Deleted = TRUE] ELSE s2
    IN  IF opts.DryRun THEN status ELSE s3

\* Policy whose read test flips Deleted instead of setting it
PolicyFlip(status) ==
    LET s1 == IF status.BotPR /\ ~opts.SkipPRsFromBots
                 THEN [status EXCEPT !.Deleted = TRUE] ELSE status
        s2 == IF s1.ClosedPR /\ ~opts.SkipClosedPRs
                 THEN [s1 EXCEPT !.Deleted = TRUE] ELSE s1
    IN  IF s2.Read /\ ~opts.SkipReadNotifications
           THEN [s2 EXCEPT !.Deleted = ~@] ELSE s2

\* The three policy tests of deleteNotifications' loop, in the code's order
Policy(status) ==
    LET s1 == IF status.BotPR /\ ~opts.SkipPRsFromBots
                 THEN [status EXCEPT !.Deleted = TRUE] ELSE status
        s2 == IF s1.ClosedPR /\ ~opts.SkipClosedPRs
                 THEN [s1 EXCEPT !.Deleted = TRUE] ELSE s1
    IN  IF s2.Read /\ ~opts.SkipReadNotifications
           THEN [s2 EXCEPT !.Deleted = TRUE] ELSE s2

\* PolicyDeletes that deletes whatever the policy decided
PolicyDeletesUnmarked(status) ==
    IF ~opts.DryRun
       THEN [deletes EXCEPT ![status.Notification.Id] = @ + 1] ELSE deletes

\* PolicyDeletes without the dry-run test
PolicyDeletesAlways(status) ==
    IF status.Deleted
       THEN [deletes EXCEPT ![status.Notification.Id] = @ + 1] ELSE deletes

\* The DELETE calls the loop body makes for this status, already through Policy
PolicyDeletes(status) ==
    IF status.Deleted /\ ~opts.DryRun
       THEN [deletes EXCEPT ![status.Notification.Id] = @ + 1] ELSE deletes

\* deleteNotifications: receive one status and decide; when it is to be
\* deleted remotely the DELETE call is issued and the goroutine waits for the
\* answer, otherwise the status is taken to the send
DeleteReceive ==
    /\ Started
    /\ deleter.recv > 0
    /\ statuses # <<>>
    /\ statuses' = Tail(statuses)
    /\ LET status == Policy(Head(statuses))
       IN  /\ deleter' = IF PolicyDeletes(status) # deletes
                            THEN [deleter EXCEPT !.recv = @ - 1,
                                                 !.call = @ (+) One(status)]
                            ELSE [deleter EXCEPT !.recv = @ - 1,
                                                 !.send = @ (+) One(status)]
           /\ deletes' = PolicyDeletes(status)
    /\ UNCHANGED <<opts, inbox, prs, mainPc, feeder, input, inputClosed, tagger,
                   wgFetcher, statusesClosed, wgDeleter, resultsClosed, received,
                   gets, first>>
    /\ UNCHANGED fetchVars
    /\ UNCHANGED envVars

\* deleteNotifications: the DELETE call answers; the status is taken to the send
DeleteDone(status) ==
    /\ Started
    /\ BagIn(status, deleter.call)
    /\ deleter' = [deleter EXCEPT !.call = @ (-) One(status),
                                  !.send = @ (+) One(status)]
    /\ UNCHANGED <<opts, inbox, prs, mainPc, feeder, input, inputClosed, tagger,
                   wgFetcher, statuses, statusesClosed, wgDeleter, resultsClosed,
                   received, gets, deletes, first>>
    /\ UNCHANGED fetchVars
    /\ UNCHANGED envVars

\* deleteNotifications: client.statuses is closed and drained, the range loop
\* ends and the deferred wgDeleter.Done() runs
DeleteExit ==
    /\ Started
    /\ deleter.recv > 0
    /\ statuses = <<>>
    /\ statusesClosed
    /\ deleter' = [deleter EXCEPT !.recv = @ - 1, !.done = @ + 1]
    /\ wgDeleter' = wgDeleter - 1
    /\ UNCHANGED <<opts, inbox, prs, mainPc, feeder, input, inputClosed, tagger,
                   wgFetcher, statuses, statusesClosed, resultsClosed, received,
                   gets, deletes, first>>
    /\ UNCHANGED fetchVars
    /\ UNCHANGED envVars

\* CloseResults that waits on wgFetcher, as the first barrier does
CloseResultsOnFetcher ==
    /\ Started
    /\ ~resultsClosed
    /\ wgFetcher = 0
    /\ resultsClosed' = TRUE
    /\ UNCHANGED <<opts, inbox, prs, mainPc, feeder, input, inputClosed, tagger,
                   wgFetcher, statuses, statusesClosed, deleter, wgDeleter, received,
                   gets, deletes, first>>
    /\ UNCHANGED fetchVars
    /\ UNCHANGED envVars

\* The second barrier: wgDeleter.Wait() returns, the deferred close(results) runs
CloseResults ==
    /\ Started
    /\ ~resultsClosed
    /\ wgDeleter = 0
    /\ resultsClosed' = TRUE
    /\ UNCHANGED <<opts, inbox, prs, mainPc, feeder, input, inputClosed, tagger,
                   wgFetcher, statuses, statusesClosed, deleter, wgDeleter, received,
                   gets, deletes, first>>
    /\ UNCHANGED fetchVars
    /\ UNCHANGED envVars

\* GetNotificationResult returning (result, true) to PrintResults:
\* client.results is unbuffered, so a deleteNotifications send
\* (client.results <- status) and the sink's receive are one step.
GetNotificationResult(status) ==
    /\ mainPc = "print"
    /\ ~ui.on
    /\ BagIn(status, deleter.send)
    /\ ~resultsClosed
    /\ received' = Append(received, status)
    /\ deleter' = [deleter EXCEPT !.send = @ (-) One(status), !.recv = @ + 1]
    /\ UNCHANGED <<opts, inbox, prs, mainPc, feeder, input, inputClosed, tagger,
                   wgFetcher, statuses, statusesClosed, wgDeleter, resultsClosed,
                   gets, deletes, first>>
    /\ UNCHANGED fetchVars
    /\ UNCHANGED envVars

\* EndOfStream reported without looking at the results channel
EndOfStreamEarly ==
    /\ mainPc = "print"
    /\ ~ui.on
    /\ mainPc' = "finished"
    /\ UNCHANGED <<opts, inbox, prs, first>>
    /\ UNCHANGED fetchVars
    /\ UNCHANGED pipeVars
    /\ UNCHANGED envVars

\* GetNotificationResult returning ok = false to PrintResults: the results
\* channel is closed, the loop ends and main returns
EndOfStream ==
    /\ mainPc = "print"
    /\ ~ui.on
    /\ resultsClosed
    /\ mainPc' = "finished"
    /\ UNCHANGED <<opts, inbox, prs, first>>
    /\ UNCHANGED fetchVars
    /\ UNCHANGED pipeVars
    /\ UNCHANGED envVars

(* ---------------------------- the interactive program ------------------ *)

\* No message from a command waits for Update
NoMsg == [kind |-> "none"]

\* The model ui.Run starts with, after newModel and Init: uiMode is
\* loadingNotifications, the fetchNotifications command runs
\* FetchNotifications, the event loop waits for messages. loop says where the
\* event loop is: "idle" between two Update calls, "recv" inside Update in
\* recvProcessed's call of GetNotificationResult. msg is the message the last
\* recvProcessed command produces, key a quit key pressed and not yet handled,
\* quit the QuitMsg of a tea.Quit command that Update returned.
\* The notificationsFetchedMsg waits exactly while mainPc = "process".
UIStart ==
    [on |-> TRUE, uiMode |-> "loadingNotifications", loop |-> "idle",
     msg |-> NoMsg, key |-> FALSE, quit |-> FALSE, numTotal |-> 0,
     numProcessed |-> 0, numFlushed |-> 0]

\* The run is on: neither finished nor quit
Running == mainPc \in {"fetch", "process", "print"}

\* The user presses a quit key (q, esc, ctrl+c)
KeyPress ==
    /\ ui.on
    /\ Running
    /\ ~ui.key
    /\ ui' = [ui EXCEPT !.key = TRUE]
    /\ UNCHANGED <<opts, inbox, prs, mainPc, first, failed>>
    /\ UNCHANGED fetchVars
    /\ UNCHANGED pipeVars

\* Update, case tea.KeyMsg matching Quit: Update returns the tea.Quit
\* command, whose QuitMsg then waits for the event loop like any message
UpdateKeyMsg ==
    /\ ui.on
    /\ Running
    /\ ui.key
    /\ ui.loop = "idle"
    /\ ui' = [ui EXCEPT !.key = FALSE, !.quit = TRUE]
    /\ UNCHANGED <<opts, inbox, prs, mainPc, first, failed>>
    /\ UNCHANGED fetchVars
    /\ UNCHANGED pipeVars

\* The event loop receives the QuitMsg: the program ends, Run and main
\* return and every goroutine ends with the process
EventLoopQuit ==
    /\ ui.on
    /\ Running
    /\ ui.quit
    /\ ui.loop = "idle"
    /\ ui' = [ui EXCEPT !.quit = FALSE]
    /\ mainPc' = IF ui.uiMode = "done" THEN "finished" ELSE "quit"
    /\ UNCHANGED <<opts, inbox, prs, first, failed>>
    /\ UNCHANGED fetchVars
    /\ UNCHANGED pipeVars

\* Update, case notificationsFetchedMsg: uiMode and numTotal are set,
\* ProcessNotifications starts the goroutines, and recvProcessed(m) is
\* evaluated: Update is now inside GetNotificationResult
UpdateNotificationsFetched ==
    /\ ui.on
    /\ mainPc = "process"
    /\ ui.loop = "idle"
    /\ ui' = [ui EXCEPT !.uiMode = "flushingNotifications",
                        !.numTotal = Len(notifications),
                        !.loop = "recv"]
    /\ mainPc' = "print"
    /\ wgFetcher' = wgFetcher + opts.NumWorkers
    /\ wgDeleter' = wgDeleter + opts.NumWorkers
    /\ feeder' = [pc |-> "push", i |-> 1]
    /\ tagger' = Pool(opts.NumWorkers)
    /\ deleter' = Pool(opts.NumWorkers)
    /\ UNCHANGED <<opts, inbox, prs, input, inputClosed, statuses, statusesClosed,
                   resultsClosed, received, gets, deletes, first, failed>>
    /\ UNCHANGED fetchVars

\* recvProcessed, GetNotificationResult returning (notification, true): a
\* deleteNotifications send and the receive inside Update are one step; Update
\* returns, and the command's processedNotificationMsg waits for the loop
recvProcessed(status) ==
    /\ ui.on
    /\ mainPc = "print"
    /\ ui.loop = "recv"
    /\ BagIn(status, deleter.send)
    /\ ~resultsClosed
    /\ received' = Append(received, status)
    /\ deleter' = [deleter EXCEPT !.send = @ (-) One(status), !.recv = @ + 1]
    /\ ui' = [ui EXCEPT !.loop = "idle",
                        !.msg = [kind |-> "processed", res |-> status]]
    /\ UNCHANGED <<opts, inbox, prs, mainPc, feeder, input, inputClosed, tagger,
                   wgFetcher, statuses, statusesClosed, wgDeleter, resultsClosed,
                   gets, deletes, first, failed>>
    /\ UNCHANGED fetchVars

\* recvProcessed, GetNotificationResult returning ok = false: the command's
\* finishedMsg waits for the loop
recvProcessedEnd ==
    /\ ui.on
    /\ mainPc = "print"
    /\ ui.loop = "recv"
    /\ resultsClosed
    /\ ui' = [ui EXCEPT !.loop = "idle", !.msg = [kind |-> "finished"]]
    /\ UNCHANGED <<opts, inbox, prs, mainPc, first, failed>>
    /\ UNCHANGED fetchVars
    /\ UNCHANGED pipeVars

\* Update, case processedNotificationMsg: the counters, then recvProcessed(m)
\* is evaluated and Update is inside GetNotificationResult again
UpdateProcessedNotification ==
    /\ ui.on
    /\ mainPc = "print"
    /\ ui.loop = "idle"
    /\ ui.msg.kind = "processed"
    /\ ui' = [ui EXCEPT !.numProcessed = @ + 1,
                        !.numFlushed = IF ui.msg.res.Deleted THEN @ + 1 ELSE @,
                        !.msg = NoMsg,
                        !.loop = "recv"]
    /\ UNCHANGED <<opts, inbox, prs, mainPc, first, failed>>
    /\ UNCHANGED fetchVars
    /\ UNCHANGED pipeVars

\* Update, case finishedMsg: uiMode is done and Update returns the tea.Quit
\* command; the program runs on until the event loop receives the QuitMsg
UpdateFinished ==
    /\ ui.on
    /\ mainPc = "print"
    /\ ui.loop = "idle"
    /\ ui.msg.kind = "finished"
    /\ ui' = [ui EXCEPT !.uiMode = "done", !.msg = NoMsg, !.quit = TRUE]
    /\ UNCHANGED <<opts, inbox, prs, mainPc, first, failed>>
    /\ UNCHANGED fetchVars
    /\ UNCHANGED pipeVars

(* ---------------------------- remote failures -------------------------- *)

\* FetchFail that carries on with the pages fetched so far
FetchFailKeepsPages ==
    /\ mainPc = "fetch"
    /\ failed = "none"
    /\ requests' = requests + 1
    /\ failed' = "list"
    /\ notifications' = pending
    /\ mainPc' = "process"
    /\ UNCHANGED <<opts, inbox, prs, first, ui, requestPath, readStreak, pending>>
    /\ UNCHANGED pipeVars

\* FetchNotifications, the LIST request or the decoding of its page fails:
\* Decode's error (or the nil response of a failed Request) panics, inside
\* the loop, before client.notifications is assigned
FetchFail ==
    /\ mainPc = "fetch"
    /\ failed = "none"
    /\ requests' = requests + 1
    /\ failed' = "list"
    /\ mainPc' = "panic"
    /\ UNCHANGED <<opts, inbox, prs, first, ui, requestPath, readStreak, pending,
                   notifications>>
    /\ UNCHANGED pipeVars

\* tagNotifications, the detail GET fails (panic(err)) or answers null (pr is
\* nil and from_a_bot panics): the goroutine unwinds, its deferred
\* wgFetcher.Done() runs, and the runtime goes on to end the process; until
\* it has, the other goroutines run on
TagGetFail(notification) ==
    /\ Started
    /\ BagIn(notification, tagger.call)
    /\ tagger' = [tagger EXCEPT !.call = @ (-) One(notification), !.done = @ + 1]
    /\ wgFetcher' = wgFetcher - 1
    /\ failed' = "get"
    /\ UNCHANGED <<opts, inbox, prs, mainPc, feeder, input, inputClosed, statuses,
                   statusesClosed, deleter, wgDeleter, resultsClosed, received,
                   gets, deletes, first, ui>>
    /\ UNCHANGED fetchVars

\* deleteNotifications, the DELETE call fails: panic(err), the goroutine
\* unwinds, its deferred wgDeleter.Done() runs, and the runtime goes on to
\* end the process; until it has, the other goroutines run on
DeleteFail(status) ==
    /\ Started
    /\ BagIn(status, deleter.call)
    /\ deleter' = [deleter EXCEPT !.call = @ (-) One(status), !.done = @ + 1]
    /\ wgDeleter' = wgDeleter - 1
    /\ failed' = "delete"
    /\ UNCHANGED <<opts, inbox, prs, mainPc, feeder, input, inputClosed, tagger,
                   wgFetcher, statuses, statusesClosed, resultsClosed, received,
                   gets, deletes, first, ui>>
    /\ UNCHANGED fetchVars

\* The runtime ends the process of a panicked goroutine
ProcessExit ==
    /\ Started
    /\ failed # "none"
    /\ mainPc' = "panic"
    /\ UNCHANGED <<opts, inbox, prs, first>>
    /\ UNCHANGED fetchVars
    /\ UNCHANGED pipeVars
    /\ UNCHANGED envVars

(* ---------------------------- specifications --------------------------- *)

Ids == 1..Len(inbox)

\* The state NewClient leaves, before FetchNotifications: channels made,
\* nothing fetched, no goroutine started. The gh configuration names a host
\* and a token, so every api.DefaultRESTClient() call returns a client.
InitClient ==
    /\ mainPc = "fetch"
    /\ requestPath = 0
    /\ requests = 0
    /\ readStreak = 0
    /\ pending = <<>>
    /\ notifications = <<>>
    /\ feeder = [pc |-> "idle", i |-> 0]
    /\ input = <<>>
    /\ inputClosed = FALSE
    /\ tagger = Pool(0)
    /\ wgFetcher = 0
    /\ statuses = <<>>
    /\ statusesClosed = FALSE
    /\ deleter = Pool(0)
    /\ wgDeleter = 0
    /\ resultsClosed = FALSE
    /\ received = <<>>
    /\ gets = [i \in Ids |-> 0]
    /\ deletes = [i \in Ids |-> 0]
    /\ failed = "none"

\* isTerminal() is false: main calls the client itself and ui.Run never runs
NoUI == [on |-> FALSE]

\* No earlier run
NoRun == [ran |-> FALSE]

\* Ten notifications as the service may hold them, one of every kind: read or
\* unread, an issue or a pull request that is open or closed, by a bot or not
Stream ==
    LET K(u, t, s, a) == [Unread |-> u, Type |-> t,
                          PR |-> IF t = "PullRequest"
                                    THEN [State |-> s, UserType |-> a] ELSE NoPR]
    IN  << K(FALSE, "Issue",       "",       ""),
           K(TRUE,  "Issue",       "",       ""),
           K(TRUE,  "PullRequest", "open",   "User"),
           K(TRUE,  "PullRequest", "open",   "Bot"),
           K(FALSE, "PullRequest", "closed", "User"),
           K(TRUE,  "PullRequest", "closed", "Bot"),
           K(FALSE, "PullRequest", "open",   "User"),
           K(TRUE,  "PullRequest", "closed", "User"),
           K(FALSE, "PullRequest", "open",   "Bot"),
           K(FALSE, "PullRequest", "closed", "Bot") >>

\* The stream item behind position i of a window that starts at item a
At(a, i) == Stream[((a + i - 2) % Len(Stream)) + 1]

\* The service holds a window of the stream: len notifications from item a on
\* (wrapping around), and the pull-request detail behind them
InitService(a, len) ==
    /\ inbox = [i \in 1..len |-> Notification(i, At(a, i).Unread, At(a, i).Type)]
    /\ prs = [i \in 1..len |-> At(a, i).PR]

\* A pipeline run: a window of at most MaxLen notifications, any switches,
\* 1..MaxWorkers workers, no halting
Init ==
    /\ \E a \in 1..Len(Stream) : \E len \in 0..MaxLen : InitService(a, len)
    /\ \E b, c, r, d \in BOOLEAN : \E w \in 1..MaxWorkers :
          opts = Options(b, c, r, d, w, 0)
    /\ first = NoRun
    /\ ui = NoUI
    /\ InitClient

\* The pipeline's steps once the notifications are fetched
Pipeline ==
    \/ ProcessNotifications
    \/ FeederPush
    \/ FeederClose
    \/ TagReceive
    \/ \E notification \in BagToSet(tagger.call) : TagGet(notification)
    \/ \E result \in BagToSet(tagger.send) : TagSend(result)
    \/ TagExit
    \/ CloseStatuses
    \/ DeleteReceive
    \/ \E status \in BagToSet(deleter.call) : DeleteDone(status)
    \/ DeleteExit
    \/ CloseResults
    \/ \E status \in BagToSet(deleter.send) : GetNotificationResult(status)
    \/ EndOfStream

\* The service answers the LIST request with the whole inbox on one page
Next ==
    \/ FetchNotifications(Len(inbox))
    \/ Pipeline

Spec == Init /\ [][Next]_vars

\* A fetch-only run: inboxes of at most MaxInbox issue notifications, read or
\* unread, halt-after from 0 to MaxHalt, pages of any size
Inboxes(n) ==
    UNION {{[i \in 1..len |-> Notification(i, u[i], "Issue")] :
                u \in [1..len -> BOOLEAN]} : len \in 0..n}

InitFetch ==
    /\ inbox \in Inboxes(MaxInbox)
    /\ prs = [i \in Ids |-> NoPR]
    /\ \E h \in 0..MaxHalt : opts = Options(FALSE, FALSE, FALSE, FALSE, 1, h)
    /\ first = NoRun
    /\ ui = NoUI
    /\ InitClient

NextFetch == \E k \in 0..Len(inbox) : FetchNotifications(k)

SpecFetch == InitFetch /\ [][NextFetch]_vars


\* The results a sink received, as an unordered collection
BagOf(seq) ==
    [r \in {seq[j] : j \in DOMAIN seq} |->
        Cardinality({j \in DOMAIN seq : seq[j] = r})]

\* The option sets a second run may use: dry-run switched on, skip-bots
\* switched on, or more than the one worker of the first run
Reruns ==
    {[opts EXCEPT !.DryRun = TRUE] : d \in {x \in {TRUE} : ~opts.DryRun}}
    \cup {[opts EXCEPT !.SkipPRsFromBots = TRUE] :
              b \in {x \in {TRUE} : ~opts.SkipPRsFromBots}}
    \cup {[opts EXCEPT !.NumWorkers = w] :
              w \in {x \in 2..MaxWorkers : opts.NumWorkers = 1}}

\* main() once more, on the same inbox and pull-request detail, with other
\* flags: what the finished run did is kept, NewClient starts afresh
Rerun(o) ==
    /\ mainPc = "finished"
    /\ first = NoRun
    /\ o \in Reruns
    /\ first' = [ran |-> TRUE, opts |-> opts, notifications |-> notifications,
                 results |-> BagOf(received), gets |-> gets, deletes |-> deletes]
    /\ opts' = o
    /\ mainPc' = "fetch"
    /\ requestPath' = 0
    /\ requests' = 0
    /\ readStreak' = 0
    /\ pending' = <<>>
    /\ notifications' = <<>>
    /\ feeder' = [pc |-> "idle", i |-> 0]
    /\ input' = <<>>
    /\ inputClosed' = FALSE
    /\ tagger' = Pool(0)
    /\ wgFetcher' = 0
    /\ statuses' = <<>>
    /\ statusesClosed' = FALSE
    /\ deleter' = Pool(0)
    /\ wgDeleter' = 0
    /\ resultsClosed' = FALSE
    /\ received' = <<>>
    /\ gets' = [i \in Ids |-> 0]
    /\ deletes' = [i \in Ids |-> 0]
    /\ UNCHANGED <<inbox, prs>>
    /\ UNCHANGED envVars

NextTwoRuns ==
    \/ FetchNotifications(Len(inbox))
    \/ Pipeline
    \/ \E o \in Reruns : Rerun(o)

SpecTwoRuns == Init /\ [][NextTwoRuns]_vars

\* A run that follows the flow of items: longer inboxes (a window of at most
\* MaxFlow notifications from stream item 9 on: deleted and kept ones, pull
\* requests and issues), no switch set, 1..MaxWorkers workers
InitFlow ==
    /\ \E len \in 0..MaxFlow : InitService(9, len)
    /\ \E w \in 1..MaxWorkers : opts = Options(FALSE, FALSE, FALSE, FALSE, w, 0)
    /\ first = NoRun
    /\ ui = NoUI
    /\ InitClient

SpecFlow == InitFlow /\ [][Next]_vars

\* The same runs under a scheduler that never leaves every runnable
\* goroutine waiting forever, with PrintResults calling
\* GetNotificationResult until it reports the end
SpecLive == InitFlow /\ [][Next]_vars /\ WF_vars(Next)

\* main on either path: stdout a terminal (ui.Run) or not: a window of at
\* most MaxLen notifications from stream item 9 on, no switch set
InitUI ==
    /\ \E len \in 0..MaxLen : InitService(9, len)
    /\ \E w \in 1..MaxWorkers : opts = Options(FALSE, FALSE, FALSE, FALSE, w, 0)
    /\ first = NoRun
    /\ ui \in {NoUI, UIStart}
    /\ InitClient

Interactive ==
    \/ KeyPress
    \/ UpdateKeyMsg
    \/ EventLoopQuit
    \/ UpdateNotificationsFetched
    \/ \E status \in BagToSet(deleter.send) : recvProcessed(status)
    \/ recvProcessedEnd
    \/ UpdateProcessedNotification
    \/ UpdateFinished

NextUI ==
    \/ FetchNotifications(Len(inbox))
    \/ Pipeline
    \/ Interactive

SpecUI == InitUI /\ [][NextUI]_vars

\* Runs in which a remote call may fail: a window of at most MaxLen
\* notifications, pages of any size, no switch set, PrintResults as the sink
InitFail ==
    /\ \E len \in 0..MaxLen : InitService(9, len)
    /\ \E w \in 1..MaxWorkers : opts = Options(FALSE, FALSE, FALSE, FALSE, w, 0)
    /\ first = NoRun
    /\ ui = NoUI
    /\ InitClient

NextFail ==
    \/ \E k \in 0..Len(inbox) : FetchNotifications(k)
    \/ Pipeline
    \/ FetchFail
    \/ \E notification \in BagToSet(tagger.call) : TagGetFail(notification)
    \/ \E status \in BagToSet(deleter.call) : DeleteFail(status)
    \/ ProcessExit

SpecFail == InitFail /\ [][NextFail]_vars

\* Runs with any worker count the --workers flag accepts from 0 on: the
\* inboxes of InitFlow, 0..MaxWorkers workers, PrintResults as the sink
InitWorkers ==
    /\ \E len \in 0..MaxFlow : InitService(9, len)
    /\ \E w \in 0..MaxWorkers : opts = Options(FALSE, FALSE, FALSE, FALSE, w, 0)
    /\ first = NoRun
    /\ ui = NoUI
    /\ InitClient

SpecWorkers == InitWorkers /\ [][Next]_vars

\* The same runs under a scheduler that never leaves every runnable
\* goroutine waiting forever
SpecWorkersLive == InitWorkers /\ [][Next]_vars /\ WF_vars(Next)

(* ---------------------------- properties ------------------------------- *)

\* The results handed to the sink so far
Delivered == {received[j] : j \in DOMAIN received}

\* The results that have been through the policy step: handed to the sink,
\* or carried by a deleteNotifications goroutine that waits for its DELETE
\* call or is blocked at its send
Processed == Delivered \cup BagToSet(deleter.call) \cup BagToSet(deleter.send)

\* C1 Cardinality: the sink never receives a result for a notification that
\* was not fetched, never two results for one notification, and when
\* GetNotificationResult reports end-of-stream it has received exactly one
\* result for each fetched notification.
OneResultPerNotification ==
    /\ \A j \in DOMAIN received :
          \E i \in DOMAIN notifications : received[j].Notification = notifications[i]
    /\ \A j, k \in DOMAIN received :
          j # k => received[j].Notification # received[k].Notification
    /\ mainPc = "finished" =>
          /\ Len(received) = Len(notifications)
          /\ \A i \in DOMAIN notifications :
                \E j \in DOMAIN received : received[j].Notification = notifications[i]

\* C1 witness: a finished run with several workers and several notifications
\* whose results arrived out of fetch order
OneResultPerNotificationWitness ==
    /\ mainPc = "finished"
    /\ opts.NumWorkers >= 2
    /\ Len(received) >= 3
    /\ received[1].Notification.Id > received[2].Notification.Id

\* The reads in a row that end at inbox position p number at least HaltAfter
StreakReached(p) ==
    /\ opts.HaltAfter > 0
    /\ p >= opts.HaltAfter
    /\ \A q \in (p - opts.HaltAfter + 1)..p : ~inbox[q].Unread

\* The position of the read notification that first brings the streak to
\* HaltAfter, 0 when the inbox holds none
HaltPos ==
    LET at == {p \in 1..Len(inbox) : StreakReached(p)}
    IN  IF at = {} THEN 0 ELSE CHOOSE p \in at : \A q \in at : p <= q

\* C2 Halt heuristic, as claimed: once FetchNotifications has returned, the
\* list is the inbox prefix up to and including the read notification that
\* brings the streak to HaltAfter (3 items for [u, r, r, u, r, r, r] and 2).
HaltPrefixIncludesHalting ==
    (mainPc # "fetch" /\ HaltPos # 0) => notifications = SubSeq(inbox, 1, HaltPos)

\* C3 Pagination stop: another page is requested only while the last page
\* had a rel="next" link (items remain) and no streak of HaltAfter reads lies
\* in what was served; FetchNotifications returns only when the streak was
\* reached, and then with the prefix before the halting notification, or
\* when every page was read, and then with the whole inbox in service
\* order; with HaltAfter = 0 it always returns the whole inbox.
PaginationStop ==
    /\ (mainPc = "fetch" /\ requests > 0) =>
          /\ requestPath < Len(inbox)
          /\ HaltPos = 0 \/ requestPath < HaltPos
          /\ pending = SubSeq(inbox, 1, requestPath)
    /\ mainPc # "fetch" =>
          /\ requests >= 1
          /\ requestPath < HaltPos \/ HaltPos = 0
          /\ IF HaltPos # 0
                THEN notifications = SubSeq(inbox, 1, HaltPos - 1)
                ELSE notifications = inbox
    /\ (mainPc # "fetch" /\ opts.HaltAfter = 0) => notifications = inbox

\* C3 witness: a fetch that halted with items left unserved, on a streak that
\* began before the last page it requested and after an unread notification
PaginationStopWitness ==
    /\ mainPc = "process"
    /\ requests >= 2
    /\ HaltPos # 0
    /\ HaltPos < Len(inbox)
    /\ opts.HaltAfter >= 2
    /\ HaltPos - opts.HaltAfter + 1 <= requestPath
    /\ \E q \in 1..HaltPos : inbox[q].Unread /\ q > 1 /\ ~inbox[q - 1].Unread

\* C4 Deletion policy: every result that reached the sink has Deleted equal
\* to (BotPR and not skip-bots) or (ClosedPR and not skip-closed) or
\* (Read and not skip-read).
DeletionPolicy ==
    \A r \in Delivered :
        r.Deleted = ( \/ r.BotPR /\ ~opts.SkipPRsFromBots
                      \/ r.ClosedPR /\ ~opts.SkipClosedPRs
                      \/ r.Read /\ ~opts.SkipReadNotifications )

\* C4 witness: with no skip switch set, a delivered result of a bot's open,
\* unread pull request is marked deleted, next to a result that is not
DeletionPolicyWitness ==
    /\ ~opts.SkipPRsFromBots /\ ~opts.SkipClosedPRs /\ ~opts.SkipReadNotifications
    /\ \E r \in Delivered :
          r.BotPR /\ ~r.ClosedPR /\ ~r.Read /\ r.Notification.Unread /\ r.Deleted
    /\ \E r \in Delivered : ~r.Deleted

\* C5 Dry-run safety: with dry-run set no DELETE call is ever issued.
DryRunNoDelete ==
    opts.DryRun => \A i \in DOMAIN deletes : deletes[i] = 0

\* C5 witness: a finished dry run that delivered results marked deleted
DryRunNoDeleteWitness ==
    /\ opts.DryRun
    /\ mainPc = "finished"
    /\ opts.NumWorkers >= 2
    /\ Cardinality({r \in Delivered : r.Deleted}) >= 2

\* The second run differs from the first in dry-run only
DryRunPair ==
    /\ first # NoRun
    /\ opts.DryRun
    /\ first.opts = [opts EXCEPT !.DryRun = FALSE]

\* C6 Dry-run indistinguishability: a dry run delivers the same collection of
\* results, all four flags included, as the run without dry-run on the same
\* inbox and skip switches.
DryRunIndistinguishable ==
    (DryRunPair /\ mainPc = "finished") =>
        /\ notifications = first.notifications
        /\ BagOf(received) = first.results
        /\ gets = first.gets

\* C6 witness: both runs finished, the real one issued DELETE calls the dry
\* one did not
DryRunIndistinguishableWitness ==
    /\ DryRunPair
    /\ mainPc = "finished"
    /\ Len(received) >= 2
    /\ deletes # first.deletes
    /\ \E r \in Delivered : r.Deleted

\* The first run had one worker, the second has more, all else is the same
WorkerPair ==
    /\ first # NoRun
    /\ first.opts.NumWorkers = 1
    /\ opts.NumWorkers # 1
    /\ first.opts = [opts EXCEPT !.NumWorkers = 1]

\* C7 Worker-count independence: a run with several workers delivers the same
\* unordered collection of results as the run with one worker.
WorkerCountIndependent ==
    (WorkerPair /\ mainPc = "finished") => BagOf(received) = first.results

\* C7 witness: the run with several workers finished having delivered its
\* results in another order than they were fetched
WorkerCountIndependentWitness ==
    /\ WorkerPair
    /\ mainPc = "finished"
    /\ Len(received) >= 3
    /\ received[1].Notification.Id > received[3].Notification.Id

\* The second run differs from the first in skip-bots only
SkipBotsPair ==
    /\ first # NoRun
    /\ opts.SkipPRsFromBots
    /\ first.opts = [opts EXCEPT !.SkipPRsFromBots = FALSE]

\* A result without its Deleted flag
Classification(r) ==
    [Notification |-> r.Notification, Read |-> r.Read, BotPR |-> r.BotPR,
     ClosedPR |-> r.ClosedPR]

\* C8 Flag independence: switching skip-bots on changes no notification's
\* Read, BotPR or ClosedPR flag.
SkipBotsKeepsClassification ==
    (SkipBotsPair /\ mainPc = "finished") =>
        {Classification(r) : r \in Delivered}
            = {Classification(r) : r \in BagToSet(first.results)}

\* C8 witness: both runs finished and a bot's pull request was marked deleted
\* in the first run only
SkipBotsKeepsClassificationWitness ==
    /\ SkipBotsPair
    /\ mainPc = "finished"
    /\ \E r \in Delivered :
          /\ r.BotPR
          /\ ~r.Deleted
          /\ BagIn([r EXCEPT !.Deleted = TRUE], first.results)

\* C9 Non-pull-request notifications: no detail GET is ever issued for a
\* notification that is not a pull request and its result carries no
\* pull-request detail and neither flag; for a pull request at most one
\* detail GET is issued, and exactly one by the time its result is delivered.
DetailGetOnlyForPullRequests ==
    /\ \A i \in DOMAIN inbox :
          IF inbox[i].Type = "PullRequest"
             THEN /\ gets[i] <= 1
                  /\ (\E r \in Processed \cup BagToSet(tagger.send) \cup
                                   {statuses[j] : j \in DOMAIN statuses} :
                          r.Notification.Id = i) => gets[i] = 1
             ELSE gets[i] = 0
    /\ \A r \in Processed :
          r.Notification.Type # "PullRequest" =>
              ~r.BotPR /\ ~r.ClosedPR /\ r.PR = NoPR

\* C9 witness: a finished run that delivered an issue's result and a pull
\* request's result
DetailGetOnlyForPullRequestsWitness ==
    /\ mainPc = "finished"
    /\ \E r \in Delivered : r.Notification.Type = "Issue" /\ r.Read
    /\ \E r \in Delivered :
          r.Notification.Type = "PullRequest" /\ gets[r.Notification.Id] = 1

\* C10 Policy idempotence: the policy step applied again to a result it has
\* processed leaves Deleted as it is, and two processed results with the
\* same Read, BotPR and ClosedPR flags have the same Deleted flag.
PolicyIdempotent ==
    /\ \A r \in Processed : Policy(r).Deleted = r.Deleted
    /\ \A r1, r2 \in Processed :
          (r1.Read = r2.Read /\ r1.BotPR = r2.BotPR /\ r1.ClosedPR = r2.ClosedPR)
              => r1.Deleted = r2.Deleted

\* C10 witness: processed results of both outcomes, the deleted one on the
\* read test alone, and two results alike in their three flags
PolicyIdempotentWitness ==
    /\ \E r \in Processed : r.Deleted /\ r.Read /\ ~r.BotPR /\ ~r.ClosedPR
    /\ \E r \in Processed : ~r.Deleted
    /\ \E r1, r2 \in Processed :
          /\ r1 # r2
          /\ r1.Read = r2.Read /\ r1.BotPR = r2.BotPR /\ r1.ClosedPR = r2.ClosedPR


\* Every goroutine ProcessNotifications started has returned
AllExited ==
    /\ feeder.pc = "done"
    /\ tagger.done = opts.NumWorkers
    /\ deleter.done = opts.NumWorkers
    /\ statusesClosed
    /\ resultsClosed

\* C11 Termination: under fair scheduling, with no remote failure and a sink
\* that keeps receiving, every run reaches the end of the stream with the
\* feeder, all workers and both barriers gone.
Termination == <>(mainPc = "finished" /\ AllExited)

\* C11 witness: a finished run of one worker on an inbox longer than the two
\* buffers together
TerminationWitness ==
    /\ mainPc = "finished"
    /\ AllExited
    /\ opts.NumWorkers = 1
    /\ Len(received) > 4 * opts.NumWorkers

\* C12 Stage completion gates: statuses is closed only when all NumWorkers
\* tagNotifications goroutines have returned, results only when all
\* NumWorkers deleteNotifications goroutines have returned; a
\* tagNotifications goroutine has returned only with input closed and empty,
\* a deleteNotifications goroutine only with statuses closed and empty.
StageGates ==
    /\ statusesClosed => tagger.done = opts.NumWorkers
    /\ resultsClosed => deleter.done = opts.NumWorkers
    /\ tagger.done > 0 => inputClosed /\ input = <<>>
    /\ deleter.done > 0 => statusesClosed /\ statuses = <<>>

\* C12 witness: both gates have opened in a run of two workers that
\* processed something
StageGatesWitness ==
    /\ statusesClosed
    /\ resultsClosed
    /\ opts.NumWorkers = 2
    /\ tagger.done = 2
    /\ deleter.done = 2
    /\ Len(received) >= 2

\* C13 Delete-call correspondence and ordering: without dry-run, a result
\* that a deleteNotifications goroutine holds at its send or that the sink
\* has received has exactly one DELETE call behind it when Deleted is true
\* and none when Deleted is false; a notification no deleteNotifications
\* goroutine has decided on yet has no DELETE call.
DeleteCorrespondence ==
    ~opts.DryRun =>
        /\ \A r \in Processed :
              deletes[r.Notification.Id] = IF r.Deleted THEN 1 ELSE 0
        /\ \A i \in Ids :
              (\A r \in Processed : r.Notification.Id # i) => deletes[i] = 0

\* C13 witness: the sink holds a deleted and a kept result while another
\* deleted one, its DELETE done, still waits at the send
DeleteCorrespondenceWitness ==
    /\ ~opts.DryRun
    /\ \E r \in Delivered : r.Deleted /\ deletes[r.Notification.Id] = 1
    /\ \E r \in Delivered : ~r.Deleted
    /\ \E r \in BagToSet(deleter.send) : r.Deleted

\* The results not yet through the policy: held by a tagNotifications
\* goroutine at its send, or in the statuses buffer
Tagged == BagToSet(tagger.send) \cup {statuses[j] : j \in DOMAIN statuses}

\* The three flags and the payload as the enrichment stage has to set them
FullyFormed(r) ==
    LET n == r.Notification
        isPR == n.Type = "PullRequest"
    IN  /\ n.Id \in Ids
        /\ n = inbox[n.Id]
        /\ r.Read = (~n.Unread /\ ~opts.SkipReadNotifications)
        /\ r.BotPR = (isPR /\ prs[n.Id].UserType = "Bot")
        /\ r.ClosedPR = (isPR /\ prs[n.Id].State = "closed")

\* C14 Fully formed results: every result on statuses and on results has
\* the three flags as the notification, its pull request and skip-read
\* determine them; before the policy Deleted is false, and the policy
\* changes no field other than Deleted.
FullyFormedResults ==
    /\ \A r \in Tagged \cup Processed : FullyFormed(r)
    /\ \A s \in Tagged :
          /\ ~s.Deleted
          /\ [Policy(s) EXCEPT !.Deleted = FALSE] = s

\* C14 witness: with skip-read on, a read notification of a closed bot pull
\* request went through both stages and another result waits on statuses
FullyFormedResultsWitness ==
    /\ opts.SkipReadNotifications
    /\ \E r \in Delivered :
          ~r.Notification.Unread /\ ~r.Read /\ r.BotPR /\ r.ClosedPR /\ r.Deleted
    /\ statuses # <<>>

\* The notifications the feeder has pushed onto input
Pushed == IF feeder.pc = "idle" THEN 0 ELSE feeder.i - 1

RECURSIVE SumTo(_, _)
SumTo(f, n) == IF n = 0 THEN 0 ELSE f[n] + SumTo(f, n - 1)

\* The DELETE calls issued, and those behind results the sink has received
DeleteCalls == SumTo(deletes, Len(inbox))
DeleteCallsReceived == Cardinality({j \in DOMAIN received : received[j].Deleted})

\* C16 Backpressure bound: the notifications pushed onto input exceed the
\* results received by at most the three channel capacities plus one item
\* per worker, and the DELETE calls issued exceed those behind received
\* results by at most NumWorkers plus the capacity of results.
Backpressure ==
    /\ Pushed - Len(received)
          <= capInput + capStatuses + capResults + 2 * opts.NumWorkers
    /\ DeleteCalls - DeleteCallsReceived <= opts.NumWorkers + capResults

\* C16 witness: the sink has received nothing, the list is longer than the
\* bound, and the feeder waits at its push with the bound reached and one
\* DELETE call already made
BackpressureWitness ==
    /\ mainPc = "print"
    /\ received = <<>>
    /\ feeder.pc = "push"
    /\ feeder.i <= Len(notifications)
    /\ Pushed = capInput + capStatuses + capResults + 2 * opts.NumWorkers
    /\ Len(input) = capInput
    /\ DeleteCalls = opts.NumWorkers + capResults

\* C15 Queue capacities: none of the three channels holds more than
\* NumWorkers items, and a push onto input, statuses or results goes through
\* with no receiver waiting whenever the channel holds fewer than NumWorkers
\* items. results never holds an item, so every send on it would have to be
\* able to go through.
QueueCapacities ==
    /\ Len(input) <= opts.NumWorkers
    /\ Len(statuses) <= opts.NumWorkers
    /\ (Started /\ feeder.pc = "push" /\ feeder.i <= Len(notifications)
            /\ Len(input) < opts.NumWorkers)
          => ENABLED FeederPush
    /\ \A result \in BagToSet(tagger.send) :
          (Started /\ Len(statuses) < opts.NumWorkers) => ENABLED TagSend(result)
    /\ \A status \in BagToSet(deleter.send) :
          (Started /\ capResults < opts.NumWorkers)
             => ENABLED (GetNotificationResult(status) \/ recvProcessed(status))

\* The five states of a run, read off the program: "idle" before the first
\* LIST request, "fetching" until ProcessNotifications is called,
\* "processing" while the feeder pushes, "draining" once input is closed,
\* "finished" when the sink has seen the end (PrintResults has returned,
\* uiMode is done); "quit" is a run the user ended.
RunState ==
    IF mainPc = "fetch" /\ requests = 0 THEN "idle"
    ELSE IF mainPc \in {"fetch", "process"} THEN "fetching"
    ELSE IF mainPc = "print" /\ ui.on /\ ui.uiMode = "done" THEN "finished"
    ELSE IF mainPc = "print" /\ feeder.pc = "push" THEN "processing"
    ELSE IF mainPc = "print" THEN "draining"
    ELSE IF mainPc = "finished" THEN "finished"
    ELSE "quit"

RunRank(state) ==
    CASE state = "idle" -> 0
      [] state = "fetching" -> 1
      [] state = "processing" -> 2
      [] state = "draining" -> 3
      [] state = "finished" -> 4
      [] OTHER -> 5

\* No goroutine of the pipeline has taken a step
PipelineUntouched ==
    /\ feeder = [pc |-> "idle", i |-> 0]
    /\ tagger = Pool(0)
    /\ deleter = Pool(0)
    /\ input = <<>>
    /\ statuses = <<>>
    /\ received = <<>>
    /\ ~inputClosed /\ ~statusesClosed /\ ~resultsClosed
    /\ \A i \in Ids : gets[i] = 0 /\ deletes[i] = 0

\* C17 Run state machine: on the batch and on the interactive path the run
\* state never moves backwards; while the run is idle or fetching no
\* goroutine of the pipeline has taken a step; and the run is finished
\* (PrintResults returned, uiMode done) only with results closed and a result
\* received, and in the interactive program counted, for every fetched
\* notification.
RunStateMachine ==
    /\ [][RunRank(RunState') >= RunRank(RunState)]_vars
    /\ [](RunState \in {"idle", "fetching"} => PipelineUntouched)
    /\ [](RunState = "finished" =>
             /\ resultsClosed
             /\ deleter.call = EmptyBag
             /\ deleter.send = EmptyBag
             /\ Len(received) = Len(notifications)
             /\ ui.on => ui.uiMode = "done" /\ ui.numProcessed = Len(notifications))
    /\ []((ui.on /\ ui.uiMode = "done") => RunState = "finished")
    /\ []((ui.on /\ ui.uiMode = "loadingNotifications" /\ Running)
             => RunState \in {"idle", "fetching"})

\* C17 witness: the interactive program is done after a run that was
\* longer than the channels hold
RunStateMachineWitness ==
    /\ ui.on
    /\ ui.uiMode = "done"
    /\ RunState = "finished"
    /\ ui.numProcessed > capInput + capStatuses
    /\ ui.numFlushed > 0

\* A quit key waits for Update, or the QuitMsg of its tea.Quit waits for
\* the event loop
QuitPending == ui.key \/ ui.quit

\* C20 Interactive quit: from the moment a quit key is pressed during a run
\* the event loop is not inside GetNotificationResult, and no further result
\* is received before the program ends.
QuitImmediately ==
    [][(ui.on /\ Running /\ QuitPending)
          => (ui.loop = "idle" /\ received' = received)]_vars

\* C18 Stage failures are fatal with no partial output: when a detail GET
\* or a DELETE call has failed, the sink has been handed no result of the
\* run and is not told the end of the stream.
NoPartialOutput ==
    failed \in {"get", "delete"} =>
        /\ received = <<>>
        /\ mainPc # "finished"

\* C19 Fetch failures abort before any processing: when a LIST request or
\* the decoding of its page has failed, the run is aborted, client's
\* notification list is empty and no goroutine of the pipeline has taken a
\* step: nothing pushed, no GET, no DELETE, no result.
FetchFailureAborts ==
    failed = "list" =>
        /\ mainPc = "panic"
        /\ notifications = <<>>
        /\ PipelineUntouched

\* C19 witness: the failing page is a later one, after pages that delivered
\* notifications
FetchFailureAbortsWitness ==
    /\ failed = "list"
    /\ requests >= 3
    /\ Len(pending) >= 2

\* A goroutine is at a send on the channel: the feeder inside its range
\* loop, a tagNotifications goroutine holding a result for statuses, a
\* deleteNotifications goroutine holding one for results
SendsInput == Started /\ feeder.pc = "push" /\ feeder.i <= Len(notifications)
SendsStatuses == tagger.send # EmptyBag
SendsResults == deleter.send # EmptyBag

\* C21 Channel safety: with any worker count from 0 on, no goroutine is at
\* a send on a closed channel; a closed channel stays closed and no step
\* closes it again; input is closed by the feeder, after its last push and as
\* its last step, statuses when wgFetcher has come down to 0 with every
\* tagNotifications goroutine returned, results when wgDeleter has come down
\* to 0 with every deleteNotifications goroutine returned.
ChannelSafety ==
    /\ [](inputClosed => ~SendsInput /\ feeder.pc = "done")
    /\ [](statusesClosed => ~SendsStatuses)
    /\ [](resultsClosed => ~SendsResults)
    /\ [][/\ inputClosed => inputClosed'
          /\ statusesClosed => statusesClosed'
          /\ resultsClosed => resultsClosed']_vars
    /\ [][inputClosed' # inputClosed =>
             /\ feeder.pc = "push" /\ feeder.i = Len(notifications) + 1
             /\ feeder'.pc = "done"
             /\ UNCHANGED <<statusesClosed, resultsClosed>>]_vars
    /\ [][statusesClosed' # statusesClosed =>
             /\ wgFetcher = 0 /\ tagger.done = opts.NumWorkers
             /\ UNCHANGED <<inputClosed, resultsClosed>>]_vars
    /\ [][resultsClosed' # resultsClosed =>
             /\ wgDeleter = 0 /\ deleter.done = opts.NumWorkers
             /\ UNCHANGED <<inputClosed, statusesClosed>>]_vars

\* C21 witness: all three channels are closed after a run of two workers
\* that pushed more than the channels hold
ChannelSafetyWitness ==
    /\ inputClosed /\ statusesClosed /\ resultsClosed
    /\ opts.NumWorkers = 2
    /\ Pushed = Len(notifications)
    /\ Pushed > capInput + capStatuses
    /\ Len(received) = Pushed

\* The pipeline was started with --workers 0 on a non-empty fetched list
ZeroWorkers ==
    /\ opts.NumWorkers = 0
    /\ notifications # <<>>
    /\ mainPc \in {"print", "finished"}

\* C22 Worker count 0: started with no worker on a non-empty list, the
\* pipeline has no tagNotifications and no deleteNotifications goroutine,
\* each barrier can close its channel at once, the feeder stays at its first
\* push, which can never go through, with input open and empty, nothing is
\* received, no GET and no DELETE call is made, and the sink is told the
\* end of the stream.
WorkerCountZero ==
    /\ [](ZeroWorkers =>
             /\ tagger = Pool(0)
             /\ deleter = Pool(0)
             /\ feeder = [pc |-> "push", i |-> 1]
             /\ ~ENABLED FeederPush
             /\ ~inputClosed
             /\ input = <<>>
             /\ received = <<>>
             /\ \A i \in Ids : gets[i] = 0 /\ deletes[i] = 0)
    /\ []((ZeroWorkers /\ Started /\ ~statusesClosed) => ENABLED CloseStatuses)
    /\ []((ZeroWorkers /\ Started /\ ~resultsClosed) => ENABLED CloseResults)
    /\ (ZeroWorkers ~> (mainPc = "finished" /\ resultsClosed))

\* C22 witness: PrintResults has returned on a run with no worker and a
\* list of several notifications, the feeder still at its first push
WorkerCountZeroWitness ==
    /\ ZeroWorkers
    /\ mainPc = "finished"
    /\ statusesClosed /\ resultsClosed
    /\ Len(notifications) >= 2
    /\ feeder.i = 1
    /\ ~inputClosed

====
